---- MODULE Spec2Model ----
(***************************************************************************)
(* Telegram message downloader: the on-demand batch of src/api.py          *)
(* (process_messages_file) and the command-line batch of src/cmd.py        *)
(* (main, process_chats): the fetch (download_chat_messages), the local    *)
(* staging write and the upload to the S3 bucket.                          *)
(*                                                                         *)
(* Optional Python values (None or a value) are sequences of length 0 or 1.*)
(* A calendar date is the number of days since 2023-01-01 (day 1).         *)
(***************************************************************************)
EXTENDS Integers, Sequences, FiniteSets, TLC

\* ------------------------------------------------------------------ bounds
\* Most lines an uploaded identifier file holds.
MaxLines == 2
\* Most messages a channel's stream holds in the fetch specification.
MaxStream == 3
\* Batch runs the on-demand endpoint serves in one behaviour.
MaxRuns == 2
\* Calendar days (of January 2024) the wall clock passes through.
MaxDay == 2

\* Most fires of the daily trigger.
MaxFires == 2

\* ----------------------------------------------------------- optional values
None == <<>>
Some(x) == <<x>>
IsNone(o) == o = <<>>
Get(o) == o[1]

\* ------------------------------------------------------------------- dates
\* Days of each month before month m in a non-leap year (2023), and January
\* and February of 2024.
DaysBefore(m) ==
    CASE m = 1 -> 0  [] m = 2 -> 31 [] m = 3 -> 59 [] m = 4 -> 90
      [] m = 5 -> 120 [] m = 6 -> 151 [] m = 7 -> 181 [] m = 8 -> 212
      [] m = 9 -> 243 [] m = 10 -> 273 [] m = 11 -> 304 [] m = 12 -> 334

DaysIn(m) ==
    CASE m \in {1, 3, 5, 7, 8, 10, 12} -> 31
      [] m \in {4, 6, 9, 11} -> 30
      [] m = 2 -> 28

\* datetime.toordinal, counted from 2023-01-01 = 1, for the years 2023 and 2024.
Ordinal(y, m, d) == (y - 2023) * 365 + DaysBefore(m) + d

\* A date string as a caller supplies it: year, separator, month, separator, day.
DateString(y, s, m, d) == [y |-> y, sep |-> s, m |-> m, d |-> d]

\* The date strings requests carry: two well-formed days and one with the
\* wrong separator ("2024/01/01").
DateStrings ==
    { DateString(2024, "-", 1, 1), DateString(2024, "-", 1, 2),
      DateString(2024, "/", 1, 1) }

\* datetime.strptime(s, "%Y-%m-%d") accepts s.
WellFormed(s) ==
    /\ s.sep = "-"
    /\ s.m \in 1..12
    /\ s.d \in 1..DaysIn(s.m)

\* parse_date: the UTC midnight of the day (its ordinal), or the failure
\* HTTPException(400, "Invalid date format. Use YYYY-MM-DD.").
parse_date(s) ==
    IF WellFormed(s)
    THEN [ok |-> TRUE, date |-> Ordinal(s.y, s.m, s.d)]
    ELSE [ok |-> FALSE, date |-> 0]

\* `parse_date(x) if x else None` for an optional query parameter.
ParseOptional(o) == IF IsNone(o) THEN None ELSE Some(parse_date(Get(o)).date)
ParseFails(o) == ~IsNone(o) /\ ~parse_date(Get(o)).ok

\* ---------------------------------------------------------------- messages
\* A timestamp: the wall-clock day (ordinal) and hour, and the UTC offset in
\* hours of the zone it is expressed in.
Timestamp(day, hour, off) == [day |-> day, hour |-> hour, off |-> off]

\* message.date.astimezone(pytz.UTC).date()
UtcDate(ts) == ts.day + ((ts.hour - ts.off + 24) \div 24) - 1

\* A filter that drops the messages of the bounding days themselves.
InWindow_exclusive(from_date, to_date, message_date) ==
    /\ ~(~IsNone(from_date) /\ message_date <= Get(from_date))
    /\ ~(~IsNone(to_date) /\ message_date >= Get(to_date))

\* The date filter of the fetch loop: both bounds inclusive, an absent bound
\* does not filter.
InWindow(from_date, to_date, message_date) ==
    /\ ~(~IsNone(from_date) /\ message_date < Get(from_date))
    /\ ~(~IsNone(to_date) /\ message_date > Get(to_date))

\* A test that only None fails (`if message.text is not None`).
HasText_notNone(m) == ~IsNone(m.text)

\* `if message.text`: None and "" are falsy.
HasText(m) == ~IsNone(m.text) /\ Get(m.text) /= ""

\* The entry appended for a retained message.
Entry(m) ==
    [date |-> Get(m.date), sender_id |-> m.sender_id,
     message |-> Get(m.text), message_id |-> m.id]

\* One pass of the body of `async for message in client.iter_messages(...)`.
LoopBody(messages, m, from_date, to_date) ==
    IF IsNone(m.date) THEN messages
    ELSE IF ~InWindow(from_date, to_date, UtcDate(Get(m.date))) THEN messages
    ELSE IF HasText(m) THEN Append(messages, Entry(m))
    ELSE messages

\* The whole loop over a stream.
RECURSIVE Scan(_, _, _, _)
Scan(stream, messages, from_date, to_date) ==
    IF stream = <<>> THEN messages
    ELSE Scan(Tail(stream), LoopBody(messages, Head(stream), from_date, to_date),
              from_date, to_date)

\* The value download_chat_messages returns.
FetchResult(token_name, messages) ==
    [token_name |-> token_name, message_count |-> Len(messages),
     messages |-> messages]

\* ------------------------------------------------------------- identifiers
\* A line of the identifier file is a sequence of characters.
Whitespace == {" "}

RECURSIVE LStrip(_)
LStrip(s) == IF s /= <<>> /\ Head(s) \in Whitespace THEN LStrip(Tail(s)) ELSE s

RECURSIVE RStrip(_)
RStrip(s) ==
    IF s /= <<>> /\ s[Len(s)] \in Whitespace
    THEN RStrip(SubSeq(s, 1, Len(s) - 1)) ELSE s

\* str.strip()
Strip(s) == RStrip(LStrip(s))

\* The lines identifier files are made of: "a", " a" and "b".
Lines == { <<"a">>, <<" ", "a">>, <<"b">> }

\* The identifier files: every sequence of at most MaxLines lines.
Uploads == UNION { [1..n -> Lines] : n \in 0..MaxLines }

\* f"Token_{username.strip()}"
TokenName(username) == <<"Token_">> \o Strip(username)

\* A filename made of the date alone.
Filename_dateOnly(username, now) ==
    [prefix |-> "telegram_", identifier |-> <<>>,
     date |-> <<2024, 1, now>>, suffix |-> ".json"]

\* f"telegram_{username.strip()}_{datetime.now().strftime('%Y_%m_%d')}.json"
Filename(username, now) ==
    [prefix |-> "telegram_", identifier |-> Strip(username),
     date |-> <<2024, 1, now>>, suffix |-> ".json"]

\* The characters of a filename, the f-string put together: the prefix, the
\* identifier, and "_%Y_%m_%d.json".
KeyString(f) ==
    <<f.prefix>> \o f.identifier
      \o <<"_", f.date[1], "_", f.date[2], "_", f.date[3], f.suffix>>

\* f"https://{bucket_name}.s3.{region}.amazonaws.com/{s3_key}"
S3Url(s3_key) == [scheme |-> "https", host |-> "bucket.s3.region.amazonaws.com",
                  key |-> s3_key]

\* The filenames the batches can compute.
Filenames == { Filename(l, d) : l \in Lines, d \in 1..MaxDay }

\* ----------------------------------------------------------- message source
Message(id, date, sender_id, text) ==
    [id |-> id, date |-> date, sender_id |-> sender_id, text |-> text]

\* What the Message Source holds for each channel, newest message first.
\* Channel "a": a message of 2 January 2024, one of 1 January, one of
\* 1 January without text and one without a date.  Channel "b": one message
\* of 1 January.
Source(identifier) ==
    IF identifier = <<"a">>
    THEN << Message(4, Some(Timestamp(Ordinal(2024, 1, 2), 10, 0)), 7, Some("c")),
            Message(3, Some(Timestamp(Ordinal(2024, 1, 1), 8, 0)), 7, Some("hi")),
            Message(2, Some(Timestamp(Ordinal(2024, 1, 1), 9, 0)), 8, Some("")),
            Message(1, None, 8, Some("x")) >>
    ELSE << Message(1, Some(Timestamp(Ordinal(2024, 1, 1), 12, 0)), 9, Some("b1")) >>

\* -------------------------------------------------------------------- state
VARIABLES
    req,        \* each on-demand request's handler: position and locals
    connected,  \* client.is_connected() of the process-wide Telegram client
    bucket,     \* the S3 bucket exists
    local,      \* the files of the working directory, by filename
    sink,       \* the objects of the S3 bucket, by key
    today,      \* the day of January 2024 datetime.now() reads
    runs,       \* batches started so far (requests received, cmd.py runs)
    loop,       \* one run of the fetch loop: stream, window, position, result
    cli,        \* the cmd.py process: position and locals of main/process_chats
    cli_connected,  \* client.is_connected() of the cmd.py process's client
    sched       \* the daily job of api_time.py: its fires and what it logged

vars == <<req, connected, bucket, local, sink, today, runs, loop, cli, cli_connected,
          sched>>

\* What the handlers of the on-demand endpoint never touch.
rest == <<loop, cli, cli_connected, sched>>

\* What the cmd.py process never touches.
rest_cli == <<loop, req, connected, sched>>

\* The request slots of the endpoint.
Reqs == {"r1", "r2"}

\* A file or object: absent, empty (created or truncated, nothing flushed),
\* or the JSON documents flushed into it since it was created or truncated.
Absent == [st |-> "absent", doc |-> <<>>]
EmptyFile == [st |-> "empty", doc |-> <<>>]
Json(result) == [st |-> "json", doc |-> <<result>>]

\* What happened to one input line: how often download_chat_messages, the
\* local write and upload_file_to_s3 were called for it, and which of
\* "fetch", "open", "write", "upload" returned normally, and the filename
\* computed for it.
NoSteps == [fetch |-> 0, write |-> 0, upload |-> 0, ok |-> {}, file |-> None]

\* A handler that is not running.
IdleReq ==
    [pc |-> "idle", from_date |-> None, to_date |-> None, usernames |-> <<>>,
     from_date_obj |-> None, to_date_obj |-> None, i |-> 0,
     result |-> None, filename |-> None, result_summary |-> <<>>,
     response |-> None, steps |-> <<>>, head |-> 0, create |-> 0,
     found |-> None, provisioned |-> FALSE, old_local |-> Absent,
     old_sink |-> Absent]

\* The response of the endpoint: the summary (200), or the HTTPException the
\* handler raises.
Summary(result_summary) ==
    [status_code |-> 200, detail |-> <<>>, summary |-> result_summary]
HttpError(status_code, detail) ==
    [status_code |-> status_code, detail |-> detail, summary |-> <<>>]

\* The handler's outer `except Exception as e`: whatever is raised before or
\* around the loop, an HTTPException included, leaves as
\* HTTPException(500, f"Error processing file: {str(e)}").
OuterExcept(q, error) ==
    [q EXCEPT !.pc = "done",
              !.response = Some(HttpError(500, <<"Error processing file">> \o error))]

\* The dictionaries appended to result_summary.
Success(username, result, s3_url) ==
    [username |-> Strip(username), status |-> "success",
     message_count |-> Some(result.message_count), s3_file |-> Some(s3_url),
     error |-> None]
Failed(username, detail) ==
    [username |-> Strip(username), status |-> "failed",
     message_count |-> None, s3_file |-> None, error |-> Some(detail)]

\* A loop that a failed line ends: the exception is caught around the loop
\* and the summary so far is returned.
NextChannel_abort(q, is_connected) ==
    IF \/ q.i >= Len(q.usernames)
       \/ /\ q.result_summary /= <<>>
          /\ q.result_summary[Len(q.result_summary)].status = "failed"
    THEN [q EXCEPT !.pc = "done", !.response = Some(Summary(q.result_summary))]
    ELSE [q EXCEPT !.i = q.i + 1,
                   !.pc = IF is_connected THEN "stream" ELSE "connect",
                   !.result = None, !.filename = None,
                   !.steps[q.i + 1].fetch = @ + 1]

\* A loop that tries a failed line once more before it goes on.
NextChannel_retry(q, is_connected) ==
    IF /\ q.i >= 1
       /\ Len(q.result_summary) = q.i
       /\ q.result_summary[q.i].status = "failed"
       /\ q.steps[q.i].fetch = 1
    THEN [q EXCEPT !.pc = IF is_connected THEN "stream" ELSE "connect",
                   !.result_summary = SubSeq(@, 1, q.i - 1),
                   !.steps[q.i].fetch = @ + 1]
    ELSE IF q.i >= Len(q.usernames)
    THEN [q EXCEPT !.pc = "done", !.response = Some(Summary(q.result_summary))]
    ELSE [q EXCEPT !.i = q.i + 1,
                   !.pc = IF is_connected THEN "stream" ELSE "connect",
                   !.result = None, !.filename = None,
                   !.steps[q.i + 1].fetch = @ + 1]

\* A handler that rejects a file without lines.
NextChannel_rejectEmpty(q, is_connected) ==
    IF q.usernames = <<>>
    THEN [q EXCEPT !.pc = "done",
                   !.response = Some([status_code |-> 400, detail |-> <<"No usernames">>,
                                      summary |-> <<>>])]
    ELSE IF q.i >= Len(q.usernames)
    THEN [q EXCEPT !.pc = "done",
                   !.response = Some([status_code |-> 200, detail |-> <<>>,
                                      summary |-> q.result_summary])]
    ELSE [q EXCEPT !.i = q.i + 1,
                   !.pc = IF is_connected THEN "stream" ELSE "connect",
                   !.result = None, !.filename = None,
                   !.steps[q.i + 1].fetch = @ + 1]

\* The head of `for username in usernames`: the loop ends and the summary is
\* returned, or the next line's download_chat_messages is called, which
\* awaits client.start() if the client is not connected and the first
\* messages otherwise.
NextChannel(q, is_connected) ==
    IF q.i >= Len(q.usernames)
    THEN [q EXCEPT !.pc = "done", !.response = Some(Summary(q.result_summary))]
    ELSE [q EXCEPT !.i = q.i + 1,
                   !.pc = IF is_connected THEN "stream" ELSE "connect",
                   !.result = None, !.filename = None,
                   !.steps[q.i + 1].fetch = @ + 1]

\* Except clauses that record the line as a success all the same.
RecordFailure_success(q, detail) ==
    [q EXCEPT !.result_summary =
        Append(@, [Failed(q.usernames[q.i], detail) EXCEPT !.status = "success"])]

\* A loop body whose except clauses swallow the failure without an outcome.
RecordFailure_dropped(q, detail) == q

\* The `except` clauses of the loop body: the failure becomes the line's
\* outcome and the loop goes on.
RecordFailure(q, detail) ==
    [q EXCEPT !.result_summary = Append(@, Failed(q.usernames[q.i], detail))]

\* A step of the current line returned normally.
Ok(q, step) == [q EXCEPT !.steps[q.i].ok = @ \cup {step}]

\* create_s3_bucket returned.
Provisioned(q) == [q EXCEPT !.provisioned = TRUE]

\* A create_s3_bucket that calls create_bucket whatever head_bucket said.
HeadOk_createAnyway(q) == [q EXCEPT !.found = Some(TRUE), !.create = @ + 1]

\* head_bucket returned: the bucket exists, create_bucket is not called.
HeadOk(q) == [q EXCEPT !.found = Some(TRUE)]

\* head_bucket raised ClientError: the bucket is taken to be absent and
\* create_bucket is called.
HeadClientError(q) == [q EXCEPT !.found = Some(FALSE), !.create = @ + 1]

\* A create_s3_bucket that logs the failure and returns: the loop is entered.
CreateFailed_logged(q) ==
    IF q.i >= Len(q.usernames)
    THEN [q EXCEPT !.pc = "done", !.response = Some(Summary(q.result_summary))]
    ELSE [q EXCEPT !.i = q.i + 1, !.pc = IF connected THEN "stream" ELSE "connect",
                   !.steps[q.i + 1].fetch = @ + 1]

\* create_bucket raised: create_s3_bucket logs it and raises
\* HTTPException(500, "Failed to create bucket ..."), which leaves the handler
\* through its outer except.
CreateFailed(q) == OuterExcept(q, <<"Failed to create bucket">>)

\* open(filename, 'a'): created empty, or left as it is.
Truncated_append(file) == IF file.st = "absent" THEN EmptyFile ELSE file

\* open(filename, 'w') on a file: created empty, or truncated.
Truncated(file) == EmptyFile

\* The document is flushed after what the file holds since the open.
Flush(file, result) == [st |-> "json", doc |-> file.doc \o <<result>>]

\* A fetch that, when it fails, saves the messages read so far.
AfterFailedFetch_partial(f, messages) ==
    IF messages = <<>> THEN local
    ELSE [local EXCEPT ![f] = [st |-> "json", doc |-> <<[items |-> messages]>>]]

\* The working directory after download_chat_messages raised with
\* `messages` read so far: the list is a local of the call and is dropped
\* with it, no file is opened.
AfterFailedFetch(f, messages) == local

\* A failed upload that removes the staged file.
AfterFailedUpload_cleanup(f) == [local EXCEPT ![f] = Absent]

\* The working directory after upload_file_to_s3 raised for file f: the
\* except clause logs and raises, the file stays.
AfterFailedUpload(f) == local

\* The end of the loop body's try block.
RecordSuccess(q) ==
    [q EXCEPT !.result_summary =
        Append(@, Success(q.usernames[q.i], Get(q.result), S3Url(Get(q.filename))))]

\* ------------------------------------------------------------ cmd.py state
\* The cmd.py process before it is started.  lines are the lines of the
\* identifier file, usernames the stripped lines process_chats iterates
\* over; log holds one entry per processed line (logger.info after the
\* upload, logger.error in the except clause); error is the exception
\* that ended the process.
IdleCli ==
    [pc |-> "idle", from_date |-> None, to_date |-> None, lines |-> <<>>,
     usernames |-> <<>>, from_date_obj |-> None, to_date_obj |-> None, i |-> 0,
     messages |-> None, filename |-> None, log |-> <<>>,
     exit_code |-> None, error |-> None, steps |-> <<>>, head |-> 0, create |-> 0,
     found |-> None, provisioned |-> FALSE, old_local |-> Absent,
     old_sink |-> Absent]

\* An exception leaves main(): the interpreter prints it and exits with 1.
Uncaught(c, error) ==
    [c EXCEPT !.pc = "exit", !.exit_code = Some(1), !.error = Some(error)]

\* json.dump(messages, f, indent=4): the document is the bare list.
JsonArray(messages) == [items |-> messages]

\* The head of `for username in usernames` of process_chats: the loop ends,
\* process_chats and main return and the process exits with 0; or the next
\* line's download_chat_messages is called.
CliNextChannel(c, is_connected) ==
    IF c.i >= Len(c.usernames)
    THEN [c EXCEPT !.pc = "exit", !.exit_code = Some(0)]
    ELSE [c EXCEPT !.i = c.i + 1,
                   !.pc = IF is_connected THEN "stream" ELSE "connect",
                   !.messages = None, !.filename = None,
                   !.steps[c.i + 1].fetch = @ + 1]

\* `except Exception as e: logger.error(f"Failed to process ...")`.
CliLogFailure(c, detail) ==
    [c EXCEPT !.log = Append(@, [level |-> "error", username |-> c.usernames[c.i],
                                 text |-> <<"Failed to process", detail>>])]

\* A loop body without the try: the exception leaves process_chats and main.
CliExcept_raise(c, detail, is_connected) == Uncaught(c, detail)

\* The except clause of the loop body of process_chats: the failure is
\* logged and the loop goes on with the next line.
CliExcept(c, detail, is_connected) ==
    CliNextChannel(CliLogFailure(c, detail), is_connected)

\* logger.info(f"Messages for '{username}' uploaded to S3: {s3_url}").
CliLogUploaded(c) ==
    [c EXCEPT !.log = Append(@, [level |-> "info", username |-> c.usernames[c.i],
                                 text |-> <<"uploaded to S3", S3Url(Get(c.filename))>>])]

\* The daily job of api_time.py before its first fire: how often the trigger
\* fired, the identifier file of the last fire, the coroutine objects that
\* process_messages_daily() returned, and what the job logged last (the
\* summary of logger.info at the end of its body, with its window).
IdleSched ==
    [pc |-> "idle", fires |-> 0, username_file |-> <<>>, coroutines |-> 0,
     logged |-> None]

\* The fetch loop before it is entered.
NoLoop == [stream |-> <<>>, from_date |-> None, to_date |-> None,
           pos |-> 0, messages |-> <<>>]

Init ==
    /\ req = [r \in Reqs |-> IdleReq]
    /\ connected = FALSE
    /\ bucket \in BOOLEAN
    /\ local = [f \in Filenames |-> Absent]
    /\ sink = [f \in Filenames |-> Absent]
    /\ today = 1
    /\ runs = 0
    /\ loop = NoLoop
    /\ cli = IdleCli
    /\ cli_connected = FALSE
    /\ sched = IdleSched

\* ------------------------------------------------------------------ actions
\* POST /process-messages/ arrives: the date filters are parsed, then the
\* handler awaits the uploaded file.
Receive(r, file, from_date, to_date) ==
    /\ req[r].pc = "idle"
    /\ runs' = runs + 1
    /\ LET q == [IdleReq EXCEPT !.from_date = from_date, !.to_date = to_date,
                                !.usernames = file,
                                !.steps = [k \in 1..Len(file) |-> NoSteps]]
       IN  req' = [req EXCEPT ![r] =
             IF ParseFails(from_date) \/ ParseFails(to_date)
             THEN OuterExcept(q, <<"Invalid date format. Use YYYY-MM-DD.">>)
             ELSE [q EXCEPT !.pc = "read",
                            !.from_date_obj = ParseOptional(from_date),
                            !.to_date_obj = ParseOptional(to_date)]]
    /\ UNCHANGED <<connected, bucket, local, sink, today, rest>>

\* create_s3_bucket: head_bucket, and create_bucket if it raises ClientError.
\* The file has been read; its lines are the usernames.
Provision(r) ==
    /\ req[r].pc = "read"
    /\ LET q == [req[r] EXCEPT !.head = @ + 1] IN
       \/ \* head_bucket succeeds: the bucket exists
          /\ bucket
          /\ req' = [req EXCEPT ![r] = NextChannel(Provisioned(HeadOk(q)), connected)]
          /\ UNCHANGED bucket
       \/ \* head_bucket raises ClientError, create_bucket succeeds
          /\ bucket' = TRUE
          /\ req' = [req EXCEPT ![r] =
                NextChannel(Provisioned(HeadClientError(q)), connected)]
       \/ \* head_bucket raises ClientError, create_bucket fails
          /\ req' = [req EXCEPT ![r] = CreateFailed(HeadClientError(q))]
          /\ UNCHANGED bucket
       \/ \* head_bucket raises something else (no credentials, no endpoint)
          /\ req' = [req EXCEPT ![r] = OuterExcept(q, <<"head_bucket failed">>)]
          /\ UNCHANGED bucket
    /\ UNCHANGED <<connected, local, sink, today, runs, rest>>

\* await client.start(phone=PHONE_NUMBER) returns or raises.
Connect(r) ==
    /\ req[r].pc = "connect"
    /\ \/ /\ connected' = TRUE
          /\ req' = [req EXCEPT ![r].pc = "stream"]
       \/ /\ UNCHANGED connected
          /\ req' = [req EXCEPT ![r] =
                NextChannel(RecordFailure(req[r], "Error downloading messages"),
                            connected)]
    /\ UNCHANGED <<bucket, local, sink, today, runs, rest>>

\* The message loop of download_chat_messages runs to its end and the
\* handler goes on to open the local file, or the loop raises.
Stream(r) ==
    /\ req[r].pc = "stream"
    /\ LET q == req[r]
           username == q.usernames[q.i]
           result == FetchResult(TokenName(username),
                        Scan(Source(Strip(username)), <<>>,
                             q.from_date_obj, q.to_date_obj))
       IN
       \/ /\ req' = [req EXCEPT ![r] =
                [Ok(q, "fetch") EXCEPT !.pc = "open", !.result = Some(result),
                          !.filename = Some(Filename(username, today)),
                          !.steps[q.i].write = @ + 1,
                          !.steps[q.i].file = Some(Filename(username, today))]]
          /\ UNCHANGED <<connected, local>>
       \/ \* ChatInvalidError
          /\ req' = [req EXCEPT ![r] =
                NextChannel(RecordFailure(q, "Chat not found or inaccessible."),
                            connected)]
          /\ local' = AfterFailedFetch(Filename(username, today), <<>>)
          /\ UNCHANGED connected
       \/ \* any other exception, after any number of messages of the
          \* stream were read; the connection may be lost with it
          \E up \in BOOLEAN, n \in 0..Len(Source(Strip(username))) :
            /\ connected' = up
            /\ local' = AfterFailedFetch(Filename(username, today),
                            Scan(SubSeq(Source(Strip(username)), 1, n), <<>>,
                                 q.from_date_obj, q.to_date_obj))
            /\ req' = [req EXCEPT ![r] =
                  NextChannel(RecordFailure(q, "Error downloading messages"), up)]
    /\ UNCHANGED <<bucket, sink, today, runs, rest>>

\* aiofiles.open(filename, mode='w') creates or truncates the file, or raises.
OpenFile(r) ==
    /\ req[r].pc = "open"
    /\ LET q == req[r] IN
       \/ /\ local' = [local EXCEPT ![Get(q.filename)] = Truncated(@)]
          /\ req' = [req EXCEPT ![r] =
                [Ok(q, "open") EXCEPT !.pc = "write",
                                      !.old_local = local[Get(q.filename)]]]
       \/ /\ UNCHANGED local
          /\ req' = [req EXCEPT ![r] =
                NextChannel(RecordFailure(q, "OSError"), connected)]
    /\ UNCHANGED <<connected, bucket, sink, today, runs, rest>>

\* The handler goes on to upload_file_to_s3 once the file is closed.
Written(q) == [Ok(q, "write") EXCEPT !.pc = "upload", !.steps[q.i].upload = @ + 1]

\* f.write(json.dumps(result, indent=4)) and the close of the file, which
\* flushes the document at offset 0; or one of them raises.
WriteFile(r) ==
    /\ req[r].pc = "write"
    /\ LET q == req[r]
           f == Get(q.filename)
       IN
       \/ /\ local' = [local EXCEPT ![f] = Flush(@, Get(q.result))]
          /\ req' = [req EXCEPT ![r] = Written(q)]
       \/ /\ UNCHANGED local
          /\ req' = [req EXCEPT ![r] =
                NextChannel(RecordFailure(q, "OSError"), connected)]
    /\ UNCHANGED <<connected, bucket, sink, today, runs, rest>>

\* upload_file_to_s3: s3_client.upload_file puts the file's bytes under the
\* key, or raises HTTPException(500, "Failed to upload file to S3: ...").
Upload(r) ==
    /\ req[r].pc = "upload"
    /\ LET q == req[r]
           f == Get(q.filename)
       IN
       \/ /\ sink' = [sink EXCEPT ![f] = local[f]]
          /\ UNCHANGED local
          /\ req' = [req EXCEPT ![r] =
                NextChannel(RecordSuccess([Ok(q, "upload") EXCEPT !.old_sink = sink[f]]),
                            connected)]
       \/ /\ UNCHANGED sink
          /\ local' = AfterFailedUpload(f)
          /\ req' = [req EXCEPT ![r] =
                NextChannel(RecordFailure(q, "Failed to upload file to S3"),
                            connected)]
    /\ UNCHANGED <<connected, bucket, today, runs, rest>>

\* The response has been sent: the handler's frame is gone.
Respond(r) ==
    /\ req[r].pc = "done"
    /\ req' = [req EXCEPT ![r] = IdleReq]
    /\ UNCHANGED <<connected, bucket, local, sink, today, runs, rest>>

\* ---------------------------------------------------------- cmd.py actions
\* python cmd.py file [--from_date D] [--to_date D]: main parses the dates.
CliMain(file, from_date, to_date) ==
    /\ cli.pc = "idle"
    /\ runs' = runs + 1
    /\ LET c == [IdleCli EXCEPT !.from_date = from_date, !.to_date = to_date,
                                !.lines = file,
                                !.steps = [k \in 1..Len(file) |-> NoSteps]]
       IN  cli' = IF ParseFails(from_date) \/ ParseFails(to_date)
                  THEN Uncaught(c, "Invalid date format. Use YYYY-MM-DD.")
                  ELSE [c EXCEPT !.pc = "read",
                                 !.from_date_obj = ParseOptional(from_date),
                                 !.to_date_obj = ParseOptional(to_date)]
    /\ UNCHANGED <<bucket, local, sink, today, cli_connected, rest_cli>>

\* process_chats reads the identifier file and calls create_s3_bucket,
\* which re-raises what create_bucket raises.
CliProvision ==
    /\ cli.pc = "read"
    /\ LET c == [cli EXCEPT !.usernames = [k \in 1..Len(cli.lines) |-> Strip(cli.lines[k])],
                            !.head = @ + 1]
       IN
       \/ \* open(file_path) raises
          /\ cli' = Uncaught(cli, "cannot open the identifier file")
          /\ UNCHANGED bucket
       \/ \* head_bucket succeeds
          /\ bucket
          /\ cli' = CliNextChannel(Provisioned(HeadOk(c)), cli_connected)
          /\ UNCHANGED bucket
       \/ \* head_bucket raises ClientError, create_bucket succeeds
          /\ bucket' = TRUE
          /\ cli' = CliNextChannel(Provisioned(HeadClientError(c)), cli_connected)
       \/ \* head_bucket raises ClientError, create_bucket raises
          /\ cli' = Uncaught(HeadClientError(c), "Failed to create bucket")
          /\ UNCHANGED bucket
       \/ \* head_bucket raises something else
          /\ cli' = Uncaught(c, "head_bucket failed")
          /\ UNCHANGED bucket
    /\ UNCHANGED <<local, sink, today, runs, cli_connected, rest_cli>>

\* await client.start(phone=PHONE_NUMBER) returns or raises.
CliConnect ==
    /\ cli.pc = "connect"
    /\ \/ /\ cli_connected' = TRUE
          /\ cli' = [cli EXCEPT !.pc = "stream"]
       \/ /\ UNCHANGED cli_connected
          /\ cli' = CliExcept(cli, "Error downloading messages", cli_connected)
    /\ UNCHANGED <<bucket, local, sink, today, runs, rest_cli>>

\* The message loop of cmd.py's download_chat_messages runs to its end, or
\* raises (ChatInvalidError becomes ValueError, anything else is re-raised).
CliStream ==
    /\ cli.pc = "stream"
    /\ LET username == cli.usernames[cli.i]
           messages == Scan(Source(username), <<>>, cli.from_date_obj, cli.to_date_obj)
       IN
       \/ /\ cli' = [Ok(cli, "fetch") EXCEPT
                        !.pc = "write", !.messages = Some(messages),
                        !.filename = Some(Filename(username, today)),
                        !.steps[cli.i].write = @ + 1,
                        !.steps[cli.i].file = Some(Filename(username, today))]
          /\ UNCHANGED cli_connected
       \/ /\ cli' = CliExcept(cli, "Chat not found or inaccessible.", cli_connected)
          /\ UNCHANGED cli_connected
       \/ \E up \in BOOLEAN :
            /\ cli_connected' = up
            /\ cli' = CliExcept(cli, "Error downloading messages", up)
    /\ UNCHANGED <<bucket, local, sink, today, runs, rest_cli>>

\* `with open(filename, 'w') as f: json.dump(messages, f, indent=4)`.
CliWriteFile ==
    /\ cli.pc = "write"
    /\ LET f == Get(cli.filename) IN
       \/ \* the file is written and closed
          /\ local' = [local EXCEPT ![f] = Flush(Truncated(@), JsonArray(Get(cli.messages)))]
          /\ cli' = [Ok(Ok(cli, "open"), "write") EXCEPT
                        !.pc = "upload", !.old_local = local[f],
                        !.steps[cli.i].upload = @ + 1]
       \/ \* open raises
          /\ UNCHANGED local
          /\ cli' = CliExcept(cli, "OSError", cli_connected)
       \/ \* json.dump or the close raises: the file stays truncated
          /\ local' = [local EXCEPT ![f] = Truncated(@)]
          /\ cli' = CliExcept([Ok(cli, "open") EXCEPT !.old_local = local[f]],
                                  "OSError", cli_connected)
    /\ UNCHANGED <<bucket, sink, today, runs, cli_connected, rest_cli>>

\* cmd.py's upload_file_to_s3: the file's bytes are put under the key, or
\* the exception is logged and re-raised.
CliUpload ==
    /\ cli.pc = "upload"
    /\ LET f == Get(cli.filename) IN
       \/ /\ sink' = [sink EXCEPT ![f] = local[f]]
          /\ cli' = CliNextChannel(
                        CliLogUploaded([Ok(cli, "upload") EXCEPT !.old_sink = sink[f]]),
                        cli_connected)
       \/ /\ UNCHANGED sink
          /\ cli' = CliExcept(cli, "Failed to upload file to S3", cli_connected)
    /\ UNCHANGED <<bucket, local, today, runs, cli_connected, rest_cli>>

\* The cmd.py process is gone, its client with it.
CliExit ==
    /\ cli.pc = "exit"
    /\ cli' = IdleCli
    /\ cli_connected' = FALSE
    /\ UNCHANGED <<bucket, local, sink, today, runs, rest_cli>>

\* ------------------------------------------------------ api_time.py actions
\* The cron trigger of 00:01 US/Pacific fires: the BackgroundScheduler hands
\* the job to its thread pool, which calls process_messages_daily().  The
\* function is `async def`: the call runs none of its body and returns a
\* coroutine object.
SchedFire(file) ==
    /\ sched.pc = "idle"
    /\ sched.fires < MaxFires
    /\ sched' = [sched EXCEPT !.pc = "called", !.fires = @ + 1,
                              !.username_file = file, !.coroutines = @ + 1,
                              !.logged = None]
    /\ UNCHANGED <<req, connected, bucket, local, sink, today, runs, loop, cli,
                   cli_connected>>

\* The thread pool takes the coroutine object as the job's return value and
\* drops it: nothing awaits it, the body never runs.
SchedDiscard ==
    /\ sched.pc = "called"
    /\ sched' = [sched EXCEPT !.pc = "idle"]
    /\ UNCHANGED <<req, connected, bucket, local, sink, today, runs, loop, cli,
                   cli_connected>>

\* Midnight passes.
Tick ==
    /\ today < MaxDay
    /\ today' = today + 1
    /\ UNCHANGED <<req, connected, bucket, local, sink, runs, rest>>

\* The optional query parameters a request may carry.
QueryDates == {None} \cup { Some(s) : s \in DateStrings }

\* One batch, on demand or from the command line: any identifier file of at
\* most MaxLines lines and any pair of date parameters, within one calendar
\* day.
Next ==
    \/ /\ runs = 0
       /\ \E file \in Uploads, from_date \in QueryDates, to_date \in QueryDates :
             Receive("r1", file, from_date, to_date)
    \/ Provision("r1")
    \/ Connect("r1")
    \/ Stream("r1")
    \/ OpenFile("r1")
    \/ WriteFile("r1")
    \/ Upload("r1")
    \/ Respond("r1")
    \/ /\ runs = 0
       /\ \E file \in Uploads, from_date \in QueryDates, to_date \in QueryDates :
             CliMain(file, from_date, to_date)
    \/ CliProvision
    \/ CliConnect
    \/ CliStream
    \/ CliWriteFile
    \/ CliUpload
    \/ CliExit

Spec == Init /\ [][Next]_vars

\* Batches one after the other, on demand or from the command line in the
\* same working directory, each over one identifier, with or without the
\* window of 1 January 2024, while the days pass.
RerunUploads == { <<l>> : l \in Lines }
RerunDates == {None, Some(DateString(2024, "-", 1, 1))}

NextRerun ==
    \/ /\ runs < MaxRuns
       /\ cli.pc = "idle"
       /\ \E file \in RerunUploads, from_date \in RerunDates, to_date \in RerunDates :
             Receive("r1", file, from_date, to_date)
    \/ Provision("r1")
    \/ Connect("r1")
    \/ Stream("r1")
    \/ OpenFile("r1")
    \/ WriteFile("r1")
    \/ Upload("r1")
    \/ Respond("r1")
    \/ /\ runs < MaxRuns
       /\ req["r1"].pc = "idle"
       /\ \E file \in RerunUploads, from_date \in RerunDates, to_date \in RerunDates :
             CliMain(file, from_date, to_date)
    \/ CliProvision
    \/ CliConnect
    \/ CliStream
    \/ CliWriteFile
    \/ CliUpload
    \/ CliExit
    \/ Tick

SpecRerun == Init /\ [][NextRerun]_vars

\* Two requests of the endpoint that overlap: the handlers are coroutines of
\* one event loop and interleave at their awaits; each carries a file of one
\* line and no date filter.
OverlapUploads == { <<l>> : l \in Lines }

NextOverlap ==
    \E r \in Reqs :
      \/ /\ runs < Cardinality(Reqs)
         /\ \E file \in OverlapUploads : Receive(r, file, None, None)
      \/ Provision(r)
      \/ Connect(r)
      \/ Stream(r)
      \/ OpenFile(r)
      \/ WriteFile(r)
      \/ Upload(r)
      \/ Respond(r)

SpecOverlap == Init /\ [][NextOverlap]_vars

\* The service of api_time.py: the trigger fires, day after day, over any
\* identifier file.
NextSchedule ==
    \/ \E file \in Uploads : SchedFire(file)
    \/ SchedDiscard
    \/ Tick

SpecSchedule == Init /\ [][NextSchedule]_vars

\* ----------------------------------------------------------- the fetch loop
\* The messages a stream is made of: dated 31 December 2023 (UTC), dated
\* 31 December 20:00 at UTC-8 (1 January in UTC), dated 2 January 2024 (UTC)
\* or undated, each with a text or an empty text; and one of 1 January
\* whose text is None.
SampleDates ==
    { None,
      Some(Timestamp(Ordinal(2023, 12, 31), 10, 0)),
      Some(Timestamp(Ordinal(2023, 12, 31), 20, -8)),
      Some(Timestamp(Ordinal(2024, 1, 2), 10, 0)) }

Samples ==
    { [date |-> d, text |-> Some(t)] : d \in SampleDates, t \in {"", "hi"} }
      \cup { [date |-> Some(Timestamp(Ordinal(2023, 12, 31), 20, -8)), text |-> None] }

\* The streams: at most MaxStream messages, numbered from the newest down.
Streams ==
    UNION { { [k \in 1..n |-> Message(n + 1 - k, s[k].date, 7, s[k].text)] :
                s \in [1..n -> Samples] } : n \in 0..MaxStream }

\* The windows: each bound absent, 1 January or 2 January 2024.
WindowDates == { ParseOptional(o) : o \in { x \in QueryDates : ~ParseFails(x) } }

InitFetch ==
    /\ req = [r \in Reqs |-> IdleReq]
    /\ connected = TRUE
    /\ bucket = TRUE
    /\ local = [f \in Filenames |-> Absent]
    /\ sink = [f \in Filenames |-> Absent]
    /\ today = 1
    /\ runs = 0
    /\ \E stream \in Streams, from_date \in WindowDates, to_date \in WindowDates :
          loop = [stream |-> stream, from_date |-> from_date, to_date |-> to_date,
                  pos |-> 0, messages |-> <<>>]
    /\ cli = IdleCli
    /\ cli_connected = FALSE
    /\ sched = IdleSched

\* A loop that breaks at the first dated message outside the window.
Iterate_break ==
    /\ loop.pos < Len(loop.stream)
    /\ LET m == loop.stream[loop.pos + 1] IN
       loop' = IF ~IsNone(m.date)
                  /\ ~InWindow(loop.from_date, loop.to_date, UtcDate(Get(m.date)))
               THEN [loop EXCEPT !.pos = Len(loop.stream)]
               ELSE [loop EXCEPT
                       !.pos = @ + 1,
                       !.messages = LoopBody(@, m, loop.from_date, loop.to_date)]
    /\ UNCHANGED <<req, connected, bucket, local, sink, today, runs, cli, cli_connected,
                   sched>>

\* `async for message in client.iter_messages(username, limit=None)`: the
\* next message of the stream goes through the loop body.
Iterate ==
    /\ loop.pos < Len(loop.stream)
    /\ loop' = [loop EXCEPT
                  !.pos = @ + 1,
                  !.messages = LoopBody(@, loop.stream[loop.pos + 1],
                                        loop.from_date, loop.to_date)]
    /\ UNCHANGED <<req, connected, bucket, local, sink, today, runs, cli, cli_connected,
                   sched>>

NextFetch == Iterate

SpecFetch == InitFetch /\ [][NextFetch]_vars

\* ------------------------------------------------------------------- claims
\* The handler's date parameters parsed.
DatesParse(q) == ~ParseFails(q.from_date) /\ ~ParseFails(q.to_date)

\* C1: when the date parameters parse and the bucket is provisioned, the
\* handler returns a summary with exactly one outcome per input line, the
\* k-th outcome carrying the k-th stripped identifier, whatever failed.
C1_OneOutcomePerLine ==
    \A r \in Reqs :
      LET q == req[r] IN
      (q.pc = "done" /\ DatesParse(q) /\ q.provisioned) =>
        /\ Get(q.response).status_code = 200
        /\ Len(Get(q.response).summary) = Len(q.usernames)
        /\ \A k \in 1..Len(q.usernames) :
             Get(q.response).summary[k].username = Strip(q.usernames[k])

\* A finished batch over " a" and "b" whose first line failed and whose
\* second succeeded.
C1_Witness ==
    LET q == req["r1"] IN
    /\ q.pc = "done" /\ q.provisioned
    /\ q.usernames = << <<" ", "a">>, <<"b">> >>
    /\ Get(q.response).summary[1].status = "failed"
    /\ Get(q.response).summary[1].username = <<"a">>
    /\ Get(q.response).summary[2].status = "success"

\* The three steps of a line all returned normally.
AllStepsOk(st) == {"fetch", "write", "upload"} \subseteq st.ok

\* C2: a failing line does not stop the batch: in a returned summary every
\* line was fetched, a line is recorded success exactly if its fetch, local
\* write and upload succeeded, and failed otherwise.
C2_FailureDoesNotStopBatch ==
    /\ \A r \in Reqs :
         LET q == req[r] IN
         (q.pc = "done" /\ DatesParse(q) /\ q.provisioned) =>
           /\ \A k \in 1..Len(q.usernames) : q.steps[k].fetch = 1
           /\ Len(q.result_summary) = Len(q.usernames)
           /\ \A k \in 1..Len(q.usernames) :
                /\ q.result_summary[k].status = "success" <=> AllStepsOk(q.steps[k])
                /\ q.result_summary[k].status = "failed" <=> ~AllStepsOk(q.steps[k])
    /\ (cli.pc = "exit" /\ cli.provisioned) =>
           /\ cli.exit_code = Some(0)
           /\ \A k \in 1..Len(cli.usernames) : cli.steps[k].fetch = 1
           /\ Len(cli.log) = Len(cli.usernames)
           /\ \A k \in 1..Len(cli.usernames) :
                /\ cli.log[k].username = cli.usernames[k]
                /\ cli.log[k].level = "info" <=> AllStepsOk(cli.steps[k])
                /\ cli.log[k].level = "error" <=> ~AllStepsOk(cli.steps[k])

\* "b" fails as chat not found, the "a" after it is fetched and succeeds.
C2_Witness ==
    LET q == req["r1"] IN
    /\ q.pc = "done" /\ q.provisioned
    /\ q.usernames = << <<"b">>, <<"a">> >>
    /\ q.result_summary[1].status = "failed"
    /\ q.result_summary[1].error = Some("Chat not found or inaccessible.")
    /\ q.steps[2].fetch = 1
    /\ q.result_summary[2].status = "success"

\* The same batch from the command line.
C2_WitnessCli ==
    /\ cli.pc = "exit" /\ cli.provisioned
    /\ cli.usernames = << <<"b">>, <<"a">> >>
    /\ cli.log[1].text = <<"Failed to process", "Chat not found or inaccessible.">>
    /\ cli.steps[2].fetch = 1
    /\ cli.log[2].level = "info"

\* The membership test of the window as the specification states it.
WindowHolds(from_date, to_date, d) ==
    /\ IsNone(from_date) \/ d >= Get(from_date)
    /\ IsNone(to_date) \/ d <= Get(to_date)

\* The messages of the stream the loop has gone through.
Scanned == { loop.stream[j] : j \in 1..loop.pos }
Retained == { loop.messages[k] : k \in 1..Len(loop.messages) }

\* C3: every returned message has a UTC calendar date inside the window,
\* both bounds inclusive and an absent bound open; and every dated message
\* with text whose UTC date is inside the window (the bounding days
\* included; every date when both bounds are absent) is returned.
C3_InclusiveWindow ==
    /\ \A e \in Retained :
         WindowHolds(loop.from_date, loop.to_date, UtcDate(e.date))
    /\ \A m \in Scanned :
         ( /\ ~IsNone(m.date)
           /\ m.text \notin {None, Some("")}
           /\ WindowHolds(loop.from_date, loop.to_date, UtcDate(Get(m.date))) )
         => \E e \in Retained : e.message_id = m.id /\ e.date = Get(m.date)

\* The window is 1 January 2024 alone; the stream holds a message of
\* 2 January, one whose UTC date is 1 January (31 December 20:00 at UTC-8)
\* and one of 31 December; only the second is returned.
C3_Witness ==
    /\ loop.pos = 3 /\ Len(loop.stream) = 3
    /\ loop.from_date = Some(Ordinal(2024, 1, 1))
    /\ loop.to_date = Some(Ordinal(2024, 1, 1))
    /\ loop.stream[1].date = Some(Timestamp(Ordinal(2024, 1, 2), 10, 0))
    /\ loop.stream[2].date = Some(Timestamp(Ordinal(2023, 12, 31), 20, -8))
    /\ loop.stream[3].date = Some(Timestamp(Ordinal(2023, 12, 31), 10, 0))
    /\ \A j \in 1..3 : loop.stream[j].text = Some("hi")
    /\ loop.messages = << Entry(loop.stream[2]) >>

\* C4: a message without a timestamp or with empty or absent text is never
\* in the result, and skipping it is not an error: the loop goes on, so the
\* result holds exactly the dated, in-window messages with text seen so far.
C4_SkippedNeverReturned ==
    /\ \A e \in Retained :
         \E m \in Scanned :
           /\ m.id = e.message_id
           /\ ~IsNone(m.date)
           /\ m.text \notin {None, Some("")}
    /\ Len(loop.messages) =
         Cardinality({ j \in 1..loop.pos :
            /\ ~IsNone(loop.stream[j].date)
            /\ loop.stream[j].text \notin {None, Some("")}
            /\ WindowHolds(loop.from_date, loop.to_date,
                           UtcDate(Get(loop.stream[j].date))) })

\* An undated message with text, a dated one with empty text and one whose
\* text is None come first; the dated message with text after them is
\* returned, alone.
C4_Witness ==
    /\ loop.pos = 3 /\ Len(loop.stream) = 3
    /\ loop.from_date = None /\ loop.to_date = None
    /\ loop.stream[1].date = None /\ loop.stream[1].text = Some("hi")
    /\ loop.stream[2].date /= None /\ loop.stream[2].text = Some("")
    /\ loop.stream[3].date /= None /\ loop.stream[3].text = Some("hi")
    /\ loop.messages = << Entry(loop.stream[3]) >>

\* No line of the batch was touched and nothing was stored.
NoChannelProcessed(q) ==
    /\ q.i = 0
    /\ q.result_summary = <<>>
    /\ \A k \in 1..Len(q.steps) : q.steps[k] = NoSteps
    /\ \A f \in Filenames : local[f] = Absent /\ sink[f] = Absent

\* The same of the command line's batch.
CliNoChannelProcessed(c) ==
    /\ c.i = 0
    /\ c.log = <<>>
    /\ \A k \in 1..Len(c.steps) : c.steps[k] = NoSteps
    /\ \A f \in Filenames : local[f] = Absent /\ sink[f] = Absent

\* C5: a malformed from_date or to_date yields the invalid-date-format
\* failure of parse_date (400, "Invalid date format. Use YYYY-MM-DD.") for
\* the whole request (the ValueError of cmd.py's parse_date for the command
\* line), and no channel is fetched, written or uploaded.
C5_InvalidDateFormat ==
    /\ \A r \in Reqs :
         LET q == req[r] IN
         (q.pc = "done" /\ ~DatesParse(q)) =>
           /\ q.response = Some(HttpError(400, <<"Invalid date format. Use YYYY-MM-DD.">>))
           /\ NoChannelProcessed(q)
    /\ (cli.pc = "exit" /\ ~DatesParse(cli)) =>
           /\ cli.error = Some("Invalid date format. Use YYYY-MM-DD.")
           /\ cli.exit_code = Some(1)
           /\ CliNoChannelProcessed(cli)

\* What does hold for a malformed date: the request fails with the
\* handler's own 500 and no channel is processed.
C5_FailsBeforeAnyChannel ==
    /\ \A r \in Reqs :
         LET q == req[r] IN
         (q.pc = "done" /\ ~DatesParse(q)) =>
           /\ q.response = Some(HttpError(500,
                  <<"Error processing file", "Invalid date format. Use YYYY-MM-DD.">>))
           /\ q.head = 0
           /\ NoChannelProcessed(q)
    /\ (cli.pc = "exit" /\ ~DatesParse(cli)) =>
           /\ cli.error = Some("Invalid date format. Use YYYY-MM-DD.")
           /\ cli.exit_code = Some(1)
           /\ cli.head = 0
           /\ CliNoChannelProcessed(cli)

\* C6: if the bucket can be neither verified nor created, the request ends
\* with an HTTPException instead of a summary (the command line with the
\* exception and exit code 1) and no channel is fetched, written or uploaded.
C6_SinkUnavailableIsFatal ==
    /\ \A r \in Reqs :
         LET q == req[r] IN
         (q.pc = "done" /\ DatesParse(q) /\ ~q.provisioned) =>
           /\ Get(q.response).status_code = 500
           /\ Get(q.response).summary = <<>>
           /\ q.head = 1
           /\ NoChannelProcessed(q)
    /\ (cli.pc = "exit" /\ cli.head = 1 /\ ~cli.provisioned) =>
           /\ cli.exit_code = Some(1)
           /\ ~IsNone(cli.error)
           /\ CliNoChannelProcessed(cli)

\* create_bucket failed for a request with two identifiers.
C6_Witness ==
    LET q == req["r1"] IN
    /\ q.pc = "done" /\ DatesParse(q) /\ ~q.provisioned
    /\ q.create = 1
    /\ Len(q.usernames) = 2
    /\ Get(q.response) = HttpError(500, <<"Error processing file", "Failed to create bucket">>)

\* create_bucket failed for a command line batch of two identifiers.
C6_WitnessCli ==
    /\ cli.pc = "exit" /\ ~cli.provisioned
    /\ cli.create = 1
    /\ Len(cli.usernames) = 2
    /\ cli.error = Some("Failed to create bucket")

\* The fetch result of line k of the batch.
ResultOf(q, k) ==
    FetchResult(TokenName(q.usernames[k]),
                Scan(Source(Strip(q.usernames[k])), <<>>,
                     q.from_date_obj, q.to_date_obj))

\* The document cmd.py writes for line k of the batch.
CliResultOf(c, k) ==
    JsonArray(Scan(Source(c.usernames[k]), <<>>, c.from_date_obj, c.to_date_obj))

\* Line k is recorded, its local write succeeded and its upload failed.
UploadFailed(q, k) ==
    /\ k <= Len(q.result_summary)
    /\ "write" \in q.steps[k].ok
    /\ "upload" \notin q.steps[k].ok

\* C7 as stated: after a failed upload the line is failed with the error
\* detail, the batch goes on, and the local file stays as it was written:
\* nothing of the batch deletes or truncates it.
C7_LocalFileUnchanged ==
    \A r \in Reqs :
      LET q == req[r] IN
      \A k \in 1..Len(q.usernames) :
        UploadFailed(q, k) =>
          /\ q.result_summary[k].status = "failed"
          /\ q.result_summary[k].error = Some("Failed to upload file to S3")
          /\ (k < Len(q.usernames) => q.steps[k + 1].fetch = 1)
          /\ local[Get(q.steps[k].file)] = Json(ResultOf(q, k))

\* C7 as amended: the local file is never deleted, and it stays as written
\* until a later line of the batch with the same filename opens it.
C7_LocalFileKeptUntilReopened ==
    \A r \in Reqs :
      LET q == req[r] IN
      \A k \in 1..Len(q.usernames) :
        UploadFailed(q, k) =>
          /\ q.result_summary[k].status = "failed"
          /\ q.result_summary[k].error = Some("Failed to upload file to S3")
          /\ (k < Len(q.usernames) => q.steps[k + 1].fetch = 1)
          /\ local[Get(q.steps[k].file)].st /= "absent"
          /\ (\A j \in (k + 1)..Len(q.usernames) :
                q.steps[j].file = q.steps[k].file => "open" \notin q.steps[j].ok)
             => local[Get(q.steps[k].file)] = Json(ResultOf(q, k))

\* The upload of "a" failed, "b" after it succeeded, and the file of "a" is
\* still the document written for it.
C7_Witness ==
    LET q == req["r1"] IN
    /\ q.pc = "done"
    /\ q.usernames = << <<"a">>, <<"b">> >>
    /\ UploadFailed(q, 1)
    /\ q.result_summary[2].status = "success"
    /\ local[Filename(<<"a">>, today)] = Json(ResultOf(q, 1))
    /\ sink[Filename(<<"a">>, today)] = Absent

\* C8: a batch that succeeds for a channel leaves exactly one document under
\* telegram_{identifier}_{date}, locally and in the bucket: the fetch result
\* of this run, whatever an earlier run of the same day left there.
C8_RerunOverwrites ==
    /\ \A r \in Reqs :
         LET q == req[r]
             n == Len(q.usernames)
         IN
         (q.pc = "done" /\ n >= 1 /\ Len(q.result_summary) = n
             /\ q.result_summary[n].status = "success") =>
           LET f == Get(q.steps[n].file) IN
           /\ f.identifier = Strip(q.usernames[n])
           /\ local[f] = Json(ResultOf(q, n))
           /\ sink[f] = Json(ResultOf(q, n))
           /\ q.result_summary[n].s3_file = Some(S3Url(f))
           /\ q.result_summary[n].message_count = Some(Len(ResultOf(q, n).messages))
    /\ LET n == Len(cli.usernames) IN
         (cli.pc = "exit" /\ n >= 1 /\ Len(cli.log) = n /\ cli.log[n].level = "info") =>
           LET f == Get(cli.steps[n].file) IN
           /\ f.identifier = cli.usernames[n]
           /\ local[f] = Json(CliResultOf(cli, n))
           /\ sink[f] = Json(CliResultOf(cli, n))
           /\ cli.log[n].text = <<"uploaded to S3", S3Url(f)>>

\* The second run of the day for "a" replaced, locally and in the bucket,
\* the different document the first run had put there.
C8_Witness ==
    LET q == req["r1"] IN
    /\ runs = 2 /\ q.pc = "done"
    /\ Len(q.usernames) = 1 /\ Len(q.result_summary) = 1
    /\ Strip(q.usernames[1]) = <<"a">>
    /\ q.result_summary[1].status = "success"
    /\ q.old_local.st = "json" /\ q.old_sink = q.old_local
    /\ q.old_local /= Json(ResultOf(q, 1))
    /\ local[Get(q.filename)] = Json(ResultOf(q, 1))
    /\ sink[Get(q.filename)] = Json(ResultOf(q, 1))

\* The same for a second run from the command line.
C8_WitnessCli ==
    /\ runs = 2 /\ cli.pc = "exit"
    /\ cli.usernames = << <<"a">> >> /\ Len(cli.log) = 1
    /\ cli.log[1].level = "info"
    /\ cli.old_local.st = "json" /\ cli.old_sink = cli.old_local
    /\ cli.old_local /= Json(CliResultOf(cli, 1))
    /\ local[Get(cli.filename)] = Json(CliResultOf(cli, 1))
    /\ sink[Get(cli.filename)] = Json(CliResultOf(cli, 1))

\* Each step of each line is invoked at most once, and nothing is attempted
\* for a line after one of its steps failed.
AtMostOnce(q) ==
    \A k \in 1..Len(q.steps) :
      LET st == q.steps[k] IN
      /\ st.fetch <= 1 /\ st.write <= 1 /\ st.upload <= 1
      /\ "fetch" \notin st.ok => st.write = 0
      /\ "write" \notin st.ok => st.upload = 0
      /\ (k <= Len(q.result_summary) /\ ~AllStepsOk(st))
           => q.result_summary[k].status = "failed"

\* The same of the command line's batch, whose outcomes are its log entries.
CliAtMostOnce(c) ==
    \A k \in 1..Len(c.steps) :
      LET st == c.steps[k] IN
      /\ st.fetch <= 1 /\ st.write <= 1 /\ st.upload <= 1
      /\ "fetch" \notin st.ok => st.write = 0
      /\ "write" \notin st.ok => st.upload = 0
      /\ (k <= Len(c.log) /\ ~AllStepsOk(st)) => c.log[k].level = "error"

CliTerminal(c, c2) ==
    /\ c2.i >= c.i
    /\ Len(c2.log) >= Len(c.log)
    /\ \A k \in 1..Len(c.log) :
         /\ c2.log[k] = c.log[k]
         /\ c2.steps[k] = c.steps[k]

\* Within a batch the loop only advances, and the outcome and the steps of
\* a recorded line no longer change.
Terminal(q, q2) ==
    /\ q2.i >= q.i
    /\ Len(q2.result_summary) >= Len(q.result_summary)
    /\ \A k \in 1..Len(q.result_summary) :
         /\ q2.result_summary[k] = q.result_summary[k]
         /\ q2.steps[k] = q.steps[k]

\* C9: no retries: each line's fetch, write and upload are invoked at most
\* once, no step follows a failed step of a line, a recorded outcome is
\* final and the loop never goes back.
C9_NoRetries ==
    /\ [](\A r \in Reqs : AtMostOnce(req[r]))
    /\ [][\A r \in Reqs : req[r].pc /= "done" => Terminal(req[r], req'[r])]_vars
    /\ [](CliAtMostOnce(cli))
    /\ [][cli.pc /= "exit" => CliTerminal(cli, cli')]_vars

\* The fetch of the first line failed, nothing more was done for it, and the
\* second line is being fetched.
C9_Witness ==
    LET q == req["r1"] IN
    /\ q.pc = "stream" /\ q.i = 2
    /\ q.result_summary[1].status = "failed"
    /\ q.steps[1] = [NoSteps EXCEPT !.fetch = 1]

\* The upload of the command line's first line failed, and its second line
\* is being fetched.
C9_WitnessCli ==
    /\ cli.pc = "stream" /\ cli.i = 2
    /\ cli.log[1].level = "error"
    /\ cli.steps[1].upload = 1 /\ "upload" \notin cli.steps[1].ok

\* C10: the window handed to the fetcher has from <= to when both are present.
C10_WindowOrdered ==
    /\ \A r \in Reqs :
         LET q == req[r] IN
         (q.pc \in {"connect", "stream"}
             /\ ~IsNone(q.from_date_obj) /\ ~IsNone(q.to_date_obj))
           => Get(q.from_date_obj) <= Get(q.to_date_obj)
    /\ (cli.pc \in {"connect", "stream"}
           /\ ~IsNone(cli.from_date_obj) /\ ~IsNone(cli.to_date_obj))
         => Get(cli.from_date_obj) <= Get(cli.to_date_obj)

\* The fields of the artifact schema.
IsArtifact(d) ==
    /\ DOMAIN d = {"token_name", "message_count", "messages"}
    /\ d.message_count = Len(d.messages)
    /\ \A k \in 1..Len(d.messages) :
         DOMAIN d.messages[k] = {"date", "sender_id", "message", "message_id"}

\* C11: every document persisted, in the working directory or in the bucket,
\* by the endpoint or by the command line, has the fields token_name,
\* message_count and messages, message_count being the number of entries and
\* each entry having date, sender_id, message and message_id.
C11_ArtifactSchema ==
    \A f \in Filenames :
      \A o \in {local[f], sink[f]} :
        o.st = "json" => \A k \in 1..Len(o.doc) : IsArtifact(o.doc[k])

\* What does hold: the documents of the endpoint follow the schema, those of
\* the command line are the bare list of entries.
C11_SchemaOfEndpointOnly ==
    \A f \in Filenames :
      \A o \in {local[f], sink[f]} :
        o.st = "json" =>
          \A k \in 1..Len(o.doc) :
            \/ IsArtifact(o.doc[k])
            \/ /\ DOMAIN o.doc[k] = {"items"}
               /\ \A j \in 1..Len(o.doc[k].items) :
                    DOMAIN o.doc[k].items[j] = {"date", "sender_id", "message", "message_id"}

\* The failures of the process itself.
ProcessLevel ==
    {"cannot open the identifier file", "Invalid date format. Use YYYY-MM-DD.",
     "Failed to create bucket", "head_bucket failed"}

\* C12: the command line run ends with exit code 0 whatever failed for its
\* channels, every line having its log entry; it ends with a failure only
\* for an unreadable identifier file, a malformed date or a bucket that
\* cannot be provisioned.
C12_CliExitCode ==
    cli.pc = "exit" =>
      /\ cli.provisioned =>
            /\ cli.exit_code = Some(0)
            /\ cli.error = None
            /\ Len(cli.log) = Len(cli.usernames)
      /\ ~cli.provisioned =>
            /\ cli.exit_code = Some(1)
            /\ ~IsNone(cli.error) /\ Get(cli.error) \in ProcessLevel
            /\ cli.log = <<>>

\* The fetch of the first line and the upload of the second failed, and the
\* process ended with exit code 0.
C12_Witness ==
    /\ cli.pc = "exit" /\ cli.exit_code = Some(0)
    /\ Len(cli.usernames) = 2
    /\ cli.log[1].text = <<"Failed to process", "Chat not found or inaccessible.">>
    /\ cli.log[2].text = <<"Failed to process", "Failed to upload file to S3">>

\* C13: a file without lines, the dates parsing and the bucket provisioned,
\* yields the empty summary and not an error, and nothing is fetched, written
\* or uploaded.
C13_EmptyInput ==
    \A r \in Reqs :
      LET q == req[r] IN
      (q.pc = "done" /\ DatesParse(q) /\ q.provisioned /\ q.usernames = <<>>) =>
        /\ q.response = Some(Summary(<<>>))
        /\ NoChannelProcessed(q)
        /\ ~connected

\* The empty file was processed after the bucket had to be created.
C13_Witness ==
    LET q == req["r1"] IN
    /\ q.pc = "done" /\ q.usernames = <<>>
    /\ q.provisioned /\ q.create = 1 /\ bucket
    /\ q.response = Some(Summary(<<>>))

\* The requests whose download_chat_messages is running: it awaits
\* client.start() or the messages of client.iter_messages().
Fetching == { r \in Reqs : req[r].pc \in {"connect", "stream"} }

\* C14: at most one fetch is in flight on the shared client at any time,
\* within a batch and across overlapping requests.
C14_OneFetchInFlight == Cardinality(Fetching) <= 1

\* What does hold: within one batch a line's fetch starts only after the
\* steps of the line before it have ended.
C14_SequentialWithinBatch ==
    \A r \in Reqs :
      LET q == req[r] IN
      \A k \in 1..Len(q.steps) :
        q.steps[k].fetch > 0 =>
          /\ k <= q.i
          /\ \A j \in 1..(k - 1) : j <= Len(q.result_summary)

\* The requests whose client.start() has been called and has not returned.
Starting == { r \in Reqs : req[r].pc = "connect" }

\* C15: the connection is established lazily and once: client.start() is
\* not called again while a call of it is establishing the connection,
\* whatever requests overlap.
C15_SingleConnect == Cardinality(Starting) <= 1

\* What does hold: client.start() is called only by a fetch that finds the
\* client not connected.
C15_StartOnlyWhenDisconnected ==
    /\ [][\A r \in Reqs :
            (req[r].pc /= "connect" /\ req'[r].pc = "connect") => ~connected']_vars
    /\ [][(cli.pc /= "connect" /\ cli'.pc = "connect") => ~cli_connected']_vars

\* The steps st of a line are in order: the upload was called at most once,
\* only after the write and the close of the file returned.
WriteThenUpload(st) ==
    /\ st.upload <= 1
    /\ st.upload = 1 => {"open", "write"} \subseteq st.ok

\* A file or object that is one complete document.
Complete(o) == o.st = "json" /\ Len(o.doc) = 1

\* C16: the upload of a line starts only after its local file was written
\* and closed, it is one put under the filename as key, no upload follows a
\* failed write, and what is in the bucket is never a partially written
\* file: every object is one complete document.
C16_UploadAfterCompleteWrite ==
    /\ \A r \in Reqs :
         LET q == req[r] IN
         \A k \in 1..Len(q.steps) :
           /\ WriteThenUpload(q.steps[k])
           /\ (k <= Len(q.result_summary) /\ q.result_summary[k].status = "success")
                => q.result_summary[k].s3_file = Some(S3Url(Get(q.steps[k].file)))
    /\ \A k \in 1..Len(cli.steps) : WriteThenUpload(cli.steps[k])
    /\ \A f \in Filenames : sink[f] = Absent \/ Complete(sink[f])

\* The positions of the scanned messages that are dated, have text and lie
\* inside the window, and the k-th of them.
Kept ==
    { j \in 1..loop.pos :
        /\ ~IsNone(loop.stream[j].date)
        /\ loop.stream[j].text \notin {None, Some("")}
        /\ WindowHolds(loop.from_date, loop.to_date, UtcDate(Get(loop.stream[j].date))) }
KthKept(k) == CHOOSE j \in Kept : Cardinality({ i \in Kept : i <= j }) = k

\* C17: the loop does not stop at a window boundary: whatever came before
\* it in the stream, every dated in-window message with text that was yielded
\* is in the result, and the result keeps the order of the stream.
C17_NoEarlyTermination ==
    /\ Len(loop.messages) = Cardinality(Kept)
    /\ \A k \in 1..Len(loop.messages) :
         /\ loop.messages[k].message_id = loop.stream[KthKept(k)].id
         /\ loop.messages[k].date = Get(loop.stream[KthKept(k)].date)
         /\ loop.messages[k].message = Get(loop.stream[KthKept(k)].text)

\* The window is 1 January 2024 alone; a message of 2 January and one of
\* 31 December come first, the message of 1 January (UTC) after them is
\* returned.
C17_Witness ==
    /\ loop.pos = 3 /\ Len(loop.stream) = 3
    /\ loop.from_date = Some(Ordinal(2024, 1, 1))
    /\ loop.to_date = Some(Ordinal(2024, 1, 1))
    /\ loop.stream[1].date = Some(Timestamp(Ordinal(2024, 1, 2), 10, 0))
    /\ loop.stream[2].date = Some(Timestamp(Ordinal(2023, 12, 31), 10, 0))
    /\ loop.stream[3].date = Some(Timestamp(Ordinal(2023, 12, 31), 20, -8))
    /\ \A j \in 1..3 : loop.stream[j].text = Some("hi")
    /\ loop.messages = << Entry(loop.stream[3]) >>

\* The bucket was looked up once, before any step of any line, and
\* create_bucket was called at most once, only after head_bucket raised
\* ClientError; c is a handler or the command line process.
VerifiedOnceBefore(c) ==
    /\ c.head <= 1 /\ c.create <= 1
    /\ c.create = 1 <=> c.found = Some(FALSE)
    /\ c.found = Some(TRUE) => c.create = 0
    /\ c.found /= None => c.head = 1
    /\ (c.i > 0 \/ \E k \in 1..Len(c.steps) : c.steps[k] /= NoSteps) =>
          c.head = 1 /\ c.provisioned /\ c.found /= None

\* C18: in every batch the bucket is verified exactly once (head_bucket),
\* before any line is fetched, written or uploaded; create_bucket is called
\* only when the verification found the bucket absent (ClientError), never
\* when it succeeded.
C18_VerifiedOnceBeforeChannels ==
    /\ \A r \in Reqs :
         /\ VerifiedOnceBefore(req[r])
         /\ (req[r].pc = "done" /\ DatesParse(req[r])) => req[r].head = 1
    /\ VerifiedOnceBefore(cli)
    /\ (cli.pc = "exit" /\ DatesParse(cli)
           /\ cli.error /= Some("cannot open the identifier file")) => cli.head = 1

\* A batch of two lines is over; the bucket was found absent and created
\* before its first line.
C18_Witness ==
    LET q == req["r1"] IN
    /\ q.pc = "done" /\ Len(q.usernames) = 2 /\ q.i = 2
    /\ q.head = 1 /\ q.found = Some(FALSE) /\ q.create = 1 /\ q.provisioned

\* C19: after every fire of the daily trigger the batch has run once over
\* the identifier file, with from and to both the day before the current
\* day, and the logged summary holds a success or failed outcome for every
\* identifier.
C19_ScheduledBatch ==
    (sched.fires > 0 /\ sched.pc = "idle") =>
      /\ ~IsNone(sched.logged)
      /\ Get(sched.logged).from_date = today - 1
      /\ Get(sched.logged).to_date = today - 1
      /\ Len(Get(sched.logged).summary) = Len(sched.username_file)
      /\ \A k \in 1..Len(sched.username_file) :
           /\ Get(sched.logged).summary[k].username = Strip(sched.username_file[k])
           /\ Get(sched.logged).summary[k].status \in {"success", "failed"}

\* What does hold: a fire leaves nothing behind, neither a summary nor a
\* file nor an object.
C19_FireDoesNothing ==
    /\ sched.logged = None
    /\ sched.coroutines = sched.fires
    /\ \A f \in Filenames : local[f] = Absent /\ sink[f] = Absent

\* C20: a recorded line is a success exactly if its fetch, its local write
\* and its upload returned without error; a success carries the message
\* count of the line's fetch result and the URL of its object and no error,
\* a failure carries the error detail and neither count nor URL.
C20_SuccessIffThreeSteps ==
    \A r \in Reqs :
      LET q == req[r] IN
      \A k \in 1..Len(q.result_summary) :
        LET o == q.result_summary[k] IN
        /\ o.status \in {"success", "failed"}
        /\ o.status = "success" <=> AllStepsOk(q.steps[k])
        /\ o.status = "success" =>
              /\ o.message_count = Some(Len(ResultOf(q, k).messages))
              /\ o.s3_file = Some(S3Url(Get(q.steps[k].file)))
              /\ o.error = None
        /\ o.status = "failed" =>
              /\ o.error /= None
              /\ o.message_count = None
              /\ o.s3_file = None

\* "a" succeeded with its two messages, the write of "b" after it failed.
C20_Witness ==
    LET q == req["r1"] IN
    /\ q.pc = "done"
    /\ q.usernames = << <<"a">>, <<"b">> >>
    /\ q.from_date = None /\ q.to_date = None
    /\ Len(q.result_summary) = 2
    /\ q.result_summary[1].status = "success"
    /\ q.result_summary[1].message_count = Some(2)
    /\ q.result_summary[2].status = "failed"
    /\ q.result_summary[2].error = Some("OSError")

\* A recorded line whose fetch failed: neither the write nor the upload was
\* called for it and no filename was computed.
NothingAfterFailedFetch(steps, recorded) ==
    \A k \in 1..recorded :
      "fetch" \notin steps[k].ok =>
        /\ steps[k].write = 0 /\ steps[k].upload = 0
        /\ steps[k].ok = {} /\ steps[k].file = None

\* C21: a fetch that fails, at the connect or anywhere in the stream, writes
\* and uploads nothing for its line: the step in which it fails leaves every
\* file and every object as it was (an artifact of an earlier run under the
\* same key included), the messages read are dropped, and neither the write
\* nor the upload is called for the line.
C21_FailedFetchWritesNothing ==
    /\ [](\A r \in Reqs : NothingAfterFailedFetch(req[r].steps, Len(req[r].result_summary)))
    /\ [](NothingAfterFailedFetch(cli.steps, Len(cli.log)))
    /\ [][\A r \in Reqs :
            (req[r].pc \in {"connect", "stream"} /\ req'[r].pc /= "open"
                /\ req'[r] /= req[r])
              => /\ local' = local /\ sink' = sink
                 /\ req'[r].result = None /\ req'[r].filename = None]_vars
    /\ [][(cli.pc \in {"connect", "stream"} /\ cli'.pc /= "write" /\ cli' /= cli)
              => /\ local' = local /\ sink' = sink
                 /\ cli'.messages = None /\ cli'.filename = None]_vars

\* The second run of the day for "a" failed in its fetch; the document the
\* first run wrote and uploaded is still there, locally and in the bucket.
C21_Witness ==
    LET q == req["r1"] IN
    /\ runs = 2 /\ q.pc = "done"
    /\ q.usernames = << <<"a">> >>
    /\ Len(q.result_summary) = 1
    /\ q.result_summary[1].error = Some("Error downloading messages")
    /\ q.steps[1] = [NoSteps EXCEPT !.fetch = 1]
    /\ local[Filename(<<"a">>, today)].st = "json"
    /\ sink[Filename(<<"a">>, today)] = local[Filename(<<"a">>, today)]

\* The lines j < k of one batch, whose filenames were computed, get the same
\* key exactly if their stripped identifiers are the same.
SameKeyIffSameIdentifier(usernames, steps) ==
    \A j, k \in 1..Len(steps) :
      (j < k /\ steps[j].file /= None /\ steps[k].file /= None) =>
        ( KeyString(Get(steps[j].file)) = KeyString(Get(steps[k].file))
            <=> Strip(usernames[j]) = Strip(usernames[k]) )

\* C22: the key is a function of the stripped identifier and the day: within
\* one batch of one day two lines get the same key exactly if their stripped
\* identifiers are the same; the object under a successful line's key is that
\* channel's document and no other channel's, one document even when a later
\* line of the same identifier wrote it again, and successes of the same
\* identifier report the same location.
C22_KeyOfIdentifierAndDate ==
    /\ \A r \in Reqs :
         LET q == req[r] IN
         /\ SameKeyIffSameIdentifier(q.usernames, q.steps)
         /\ \A k \in 1..Len(q.result_summary) :
              q.result_summary[k].status = "success" =>
                /\ sink[Get(q.steps[k].file)] = Json(ResultOf(q, k))
                /\ Get(q.steps[k].file).identifier = Strip(q.usernames[k])
                /\ \A j \in 1..(k - 1) :
                     ( q.result_summary[j].status = "success"
                       /\ Strip(q.usernames[j]) = Strip(q.usernames[k]) )
                     => q.result_summary[j].s3_file = q.result_summary[k].s3_file
    /\ SameKeyIffSameIdentifier(cli.usernames, cli.steps)
    /\ \A k \in 1..Len(cli.log) :
         cli.log[k].level = "info" =>
           /\ sink[Get(cli.steps[k].file)] = Json(CliResultOf(cli, k))
           /\ \A j \in 1..(k - 1) :
                (cli.log[j].level = "info" /\ cli.usernames[j] = cli.usernames[k])
                => cli.log[j].text = cli.log[k].text

\* The lines " a" and "a" both succeeded: one key, one document under it,
\* written the second time over the first, and the same location reported
\* twice.
C22_Witness ==
    LET q == req["r1"] IN
    /\ q.pc = "done"
    /\ q.usernames = << <<" ", "a">>, <<"a">> >>
    /\ Len(q.result_summary) = 2
    /\ q.result_summary[1].status = "success"
    /\ q.result_summary[2].status = "success"
    /\ q.steps[1].file = q.steps[2].file
    /\ q.old_local = Json(ResultOf(q, 1))
    /\ local[Get(q.filename)] = Json(ResultOf(q, 2))
    /\ q.result_summary[1].s3_file = q.result_summary[2].s3_file

\* The lines "a" and "b" both succeeded, each under its own key.
C22_WitnessDistinct ==
    LET q == req["r1"] IN
    /\ q.pc = "done"
    /\ q.usernames = << <<"a">>, <<"b">> >>
    /\ Len(q.result_summary) = 2
    /\ q.result_summary[1].status = "success"
    /\ q.result_summary[2].status = "success"
    /\ q.steps[1].file /= q.steps[2].file
    /\ sink[Get(q.steps[1].file)] = Json(ResultOf(q, 1))
    /\ sink[Get(q.steps[2].file)] = Json(ResultOf(q, 2))

====
